---- MODULE Spec2Model ----
(***************************************************************************)
(* Uncoordinated checkpointing of styx: the worker-side snapshotter        *)
(* (worker/fault_tolerance/uncoordinated_snapshots.py) and the delta       *)
(* compactor (coordinator/uncoordinated_snapshot_compactor.py), over an    *)
(* object store modelled as a function from object names to payloads.      *)
(*                                                                         *)
(* An object name is kept as the sequence of its "/"-separated segments    *)
(* (exactly what str.split("/") returns), a state delta as a function      *)
(* from state keys to values (a Python dict), a sequencer record as the    *)
(* 4-tuple the worker unpacks.                                             *)
(***************************************************************************)
EXTENDS Integers, Sequences, FiniteSets, TLC

VARIABLES
    store,                \* the snapshot bucket: object name -> payload
    snapshot_id,          \* per worker: self.snapshot_id
    completed_snapshots,  \* per worker: self.completed_snapshots
    snapshot_in_progress, \* per worker: self.snapshot_in_progress
    snapshot_start,       \* per worker: self.snapshot_start (ms)
    last_snapshot_time,   \* per worker: self.last_snapshot_time (s)
    current_meta,         \* per worker: current offsets / epoch / t_counter
    now,                  \* time.time(), in seconds
    polled,               \* per worker: the answer of should_take_snapshot the loop holds
    rec,                  \* what the last retrieve_snapshot call did and returned
    cpc,                  \* compaction run: position of the compactor
    cmax,                 \* compaction run: max_snap_id
    cgroups,              \* compaction run: snapshots_per_worker
    cpending,             \* compaction run: groups the loop has not visited yet
    to_delete,            \* compaction run: snapshots_to_delete
    oplog,                \* compaction run: puts and deletes issued so far
    store0,               \* the bucket when the current compaction run started
    cmerged,              \* compaction run: groups merged so far
    cruns,                \* number of compaction runs started
    prev,                 \* the previous compaction run: its bound, outcome and merged groups
    cfaults,              \* compaction run: the store calls that failed
    notif,                \* per worker: the last coordinator notification and its fate
    pending,              \* per worker: object names of dispatched writes not yet executed
    awaiting,             \* per worker: finished writes whose completion is not yet reported
    last_store,           \* the last store_snapshot call: name, payload, outcome
    pathq,                \* the last storage path asked for and the answer
    units                 \* per worker and execution unit: position in the callback, value read

vars == <<store, snapshot_id, completed_snapshots, snapshot_in_progress,
          snapshot_start, last_snapshot_time, current_meta, now, polled, rec,
          cpc, cmax, cgroups, cpending, to_delete, oplog, store0,
          cmerged, cruns, prev, cfaults, notif, pending, awaiting, last_store, pathq,
          units>>

workerVars == <<snapshot_id, completed_snapshots, snapshot_in_progress,
                snapshot_start, last_snapshot_time, current_meta>>

compVars == <<cpc, cmax, cgroups, cpending, to_delete, oplog, store0, cmerged, cruns, prev,
              cfaults>>

auxVars == <<notif, pending, awaiting, last_store, pathq, units>>

(***************************************************************************)
(* Bounds                                                                  *)
(***************************************************************************)
MaxSnapId == 2          \* snapshot ids in the bucket range over 0..MaxSnapId
MaxRuns == 2            \* compaction runs per behaviour
MaxTime == 8            \* the clock stops advancing here
MaxRounds == 2          \* snapshot rounds a worker starts
MaxPathInt == 10        \* the integers the path functions are called with
SnapshotInterval == 2   \* self.snapshot_interval, in seconds

Workers == {1, 2}

\* the workers above and a worker constructed with n_assigned_partitions = 0
ConfiguredWorkers == Workers \cup {3}
StateKeys == {"a", "b"}
Values == {1, 2}
SnapIds == 0..MaxSnapId

\* registered_operators of each worker
RegisteredOperators(w) ==
    IF w = 1 THEN {<<"orders", 0>>, <<"orders", 1>>}
    ELSE IF w = 2 THEN {<<"orders", 0>>}
    ELSE {}

\* every dict over StateKeys, the empty dict included
KVPairs == UNION {[D -> Values] : D \in SUBSET StateKeys}

(***************************************************************************)
(* Python values and string conversions                                    *)
(***************************************************************************)
PyNone == [t |-> "None"]
PyDict(d) == [t |-> "dict", v |-> d]

EmptyDict == <<>>

\* truth value of a dict: empty is falsy
Truthy(d) == DOMAIN d # {}

\* dict.update: entries of other replace entries of d, the rest of d stays
DictUpdate(d, other) == other @@ d

Decimals == <<"0", "1", "2", "3", "4", "5", "6", "7", "8", "9", "10", "11", "12">>

\* f"{n}" for an int n
ToStr(n) == Decimals[n + 1]

IsIntStr(s) == \E n \in 0..(Len(Decimals) - 1) : Decimals[n + 1] = s

\* int(s); only applied where IsIntStr(s), int raises ValueError elsewhere
PyInt(s) == CHOOSE n \in 0..(Len(Decimals) - 1) : Decimals[n + 1] = s

\* file names occurring in the bucket: <<name, name.split(".")[0], name.endswith(".bin")>>
NameTable ==
    {<<ToStr(n) \o ".bin", ToStr(n), TRUE>> : n \in 0..(Len(Decimals) - 1)}
        \cup {<<"tmp.bin", "tmp", TRUE>>, <<"0.tmp", "0", FALSE>>}

SplitDot0(name) == (CHOOSE e \in NameTable : e[1] = name)[2]

EndsWithBin(name) == (CHOOSE e \in NameTable : e[1] = name)[3]

Last(s) == s[Len(s)]

(***************************************************************************)
(* Storage paths                                                           *)
(***************************************************************************)
\* partition and snapshot id change places
GetSnapshotPathSwapped(w, operator_name, partition, sn_id) ==
    <<"uncoordinated", ToStr(w), operator_name, ToStr(sn_id), ToStr(partition) \o ".bin">>

\* f"uncoordinated/{worker_id}/{operator_name}/{partition}/{snapshot_id}.bin"
GetSnapshotPath(w, operator_name, partition, sn_id) ==
    <<"uncoordinated", ToStr(w), operator_name, ToStr(partition), ToStr(sn_id) \o ".bin">>

GetSequencerPath(w, sn_id) ==
    <<"uncoordinated", ToStr(w), "sequencer", ToStr(sn_id) \o ".bin">>

\* list_objects(prefix=..., recursive=True) filtered on .bin: the prefix ends
\* with "/", so it matches the names that continue below these segments
ListObjects(st, prefix) ==
    {k \in DOMAIN st : /\ Len(k) > Len(prefix)
                       /\ SubSeq(k, 1, Len(prefix)) = prefix
                       /\ EndsWithBin(Last(k))}

\* list_objects(recursive=True) over the whole bucket, filtered on .bin
ListAllObjects(st) == {k \in DOMAIN st : EndsWithBin(Last(k))}

PutObject(st, k, payload) == (k :> payload) @@ st

RemoveObject(st, k) == [x \in DOMAIN st \ {k} |-> st[x]]

\* sorted(..., key=lambda item: item[0]) of <<id, name>> pairs
RECURSIVE SortById(_)
SortById(S) ==
    IF S = {} THEN <<>>
    ELSE LET m == CHOOSE e \in S : \A f \in S : e[1] <= f[1]
         IN <<m>> \o SortById(S \ {m})

(***************************************************************************)
(* retrieve_snapshot                                                       *)
(***************************************************************************)
NoRec == [status |-> "none"]

\* prefix=f"uncoordinated/{self.worker_id}/{operator_name}/{partition}/"
PartitionPrefix(w, op) == <<"uncoordinated", ToStr(w), op[1], ToStr(op[2])>>

\* prefix=f"uncoordinated/{self.worker_id}/sequencer/"
SequencerPrefix(w) == <<"uncoordinated", ToStr(w), "sequencer">>

\* int(snapshot_file.split("/")[-1].split(".")[0]) succeeds for every listed file
MergeOrderParses(files) == \A f \in files : IsIntStr(SplitDot0(Last(f)))

\* snapshot_merge_order / sequencer_merge_order
MergeOrder(files) == SortById({<<PyInt(SplitDot0(Last(f))), f>> : f \in files})

\* off by one: the delta right above the target is merged too
SkipDeltaOffByOne(sn_id, target) == sn_id > target + 1

\* "if sn_id > snapshot_id: continue"
SkipDelta(sn_id, target) == sn_id > target

\* the body of the merge loop once a delta has been fetched
MergeStep(data, op, partition_data) ==
    IF op \in DOMAIN data /\ Truthy(partition_data)
    THEN [data EXCEPT ![op] = DictUpdate(@, partition_data)]
    ELSE (op :> partition_data) @@ data

\* the merge loop of one operator partition; acc = [data, reads]
RECURSIVE MergeDeltas(_, _, _, _, _)
MergeDeltas(st, acc, op, order, target) ==
    IF order = <<>> THEN acc
    ELSE LET sn_id == Head(order)[1]
             sn_name == Head(order)[2]
         IN IF SkipDelta(sn_id, target)
            THEN MergeDeltas(st, acc, op, Tail(order), target)
            ELSE MergeDeltas(st,
                             [data |-> MergeStep(acc.data, op, st[sn_name]),
                              reads |-> acc.reads \cup {sn_name}],
                             op, Tail(order), target)

\* "for operator_partition in registered_operators"
RECURSIVE RetrieveData(_, _, _, _, _)
RetrieveData(st, w, target, ops, acc) ==
    IF ops = {} THEN acc
    ELSE LET op == CHOOSE o \in ops : TRUE
             files == ListObjects(st, PartitionPrefix(w, op))
         IN RetrieveData(st, w, target, ops \ {op},
                         MergeDeltas(st, acc, op, MergeOrder(files), target))

\* the offsets are merged into the previous record instead of replacing it
SequencerAssignMerged(cur, payload) ==
    <<DictUpdate(cur[1], payload[1]), DictUpdate(cur[2], payload[2]), payload[3], payload[4]>>

\* the tuple assignment in the sequencer loop: the whole record is replaced
SequencerAssign(cur, payload) == payload

\* the sequencer loop; acc = [val, reads]
RECURSIVE SequencerLoop(_, _, _, _)
SequencerLoop(st, acc, order, target) ==
    IF order = <<>> THEN acc
    ELSE LET sn_id == Head(order)[1]
             sn_name == Head(order)[2]
         IN IF SkipDelta(sn_id, target)
            THEN SequencerLoop(st, acc, Tail(order), target)
            ELSE SequencerLoop(st,
                               [val |-> SequencerAssign(acc.val, st[sn_name]),
                                reads |-> acc.reads \cup {sn_name}],
                               Tail(order), target)

\* a ValueError escapes retrieve_snapshot
RetrieveRaises(st, w) ==
    \/ \E op \in RegisteredOperators(w) :
           ~MergeOrderParses(ListObjects(st, PartitionPrefix(w, op)))
    \/ ~MergeOrderParses(ListObjects(st, SequencerPrefix(w)))

\* what retrieve_snapshot(target, registered_operators) of worker w returns on bucket st
RetrieveResult(st, w, target) ==
    IF target = -1
    THEN [status |-> "ok", worker |-> w, target |-> target,
          data |-> EmptyDict, tpo |-> PyNone, tpoo |-> PyNone,
          epoch |-> 0, t_counter |-> 0, reads |-> {}]
    ELSE IF RetrieveRaises(st, w)
    THEN [status |-> "error", worker |-> w, target |-> target]
    ELSE LET d == RetrieveData(st, w, target, RegisteredOperators(w),
                               [data |-> EmptyDict, reads |-> {}])
             s == SequencerLoop(st,
                                [val |-> <<EmptyDict, EmptyDict, 0, 0>>, reads |-> {}],
                                MergeOrder(ListObjects(st, SequencerPrefix(w))),
                                target)
         IN [status |-> "ok", worker |-> w, target |-> target,
             data |-> d.data, tpo |-> PyDict(s.val[1]), tpoo |-> PyDict(s.val[2]),
             epoch |-> s.val[3], t_counter |-> s.val[4],
             reads |-> d.reads \cup s.reads]

\* the recovered id itself is reused by the next round
NextSnapshotIdSame(target) == target

\* "self.snapshot_id = snapshot_id + 1"
NextSnapshotId(target) == target + 1

RetrieveSnapshot(w, target) ==
    /\ rec = NoRec      \* recovery runs once, when the worker starts
    /\ snapshot_id[w] = 0 /\ ~snapshot_in_progress[w] /\ polled[w] = "none"
    /\ snapshot_id' = [snapshot_id EXCEPT ![w] = NextSnapshotId(target)]
    /\ rec' = RetrieveResult(store, w, target)
    /\ UNCHANGED <<store, completed_snapshots, snapshot_in_progress, snapshot_start,
                   last_snapshot_time, current_meta, now, polled>>
    /\ UNCHANGED compVars
    /\ UNCHANGED auxVars

\* the calls to the object store that can raise during a recovery
RetrieveFaults == {"list", "get", "decode"}

\* a failing get is skipped and the recovery goes on
RetrieveCatchesGet(fault) == fault = "get"

\* retrieve_snapshot has no try/except: nothing raised by list_objects,
\* get_object or msgpack_deserialization is caught
RetrieveCatches(fault) == FALSE

\* retrieve_snapshot in which a call to the object store raises
RetrieveSnapshotFails(w, target, fault) ==
    /\ rec = NoRec
    /\ snapshot_id[w] = 0 /\ ~snapshot_in_progress[w] /\ polled[w] = "none"
    /\ target >= 0          \* at -1 the method returns before any call
    /\ fault # "list" =>
           /\ RetrieveResult(store, w, target).status = "ok"
           /\ RetrieveResult(store, w, target).reads # {}
    /\ snapshot_id' = [snapshot_id EXCEPT ![w] = NextSnapshotId(target)]
    /\ rec' = IF RetrieveCatches(fault)
              THEN ("fault" :> fault) @@ RetrieveResult(<<>>, w, target)
              ELSE [status |-> "error", worker |-> w, target |-> target, fault |-> fault]
    /\ UNCHANGED <<store, completed_snapshots, snapshot_in_progress, snapshot_start,
                   last_snapshot_time, current_meta, now, polled>>
    /\ UNCHANGED compVars
    /\ UNCHANGED auxVars

(***************************************************************************)
(* Compactor                                                               *)
(***************************************************************************)
NoPrev == [status |-> "none"]

NoFaults == [merge |-> {}, delete |-> {}]

\* the prefix test is missing: only the number of segments is tested
CandidatesAnyPrefix(files) == {f \in files : Len(f) >= 5}

\* files that pass the two "continue" tests of get_uncoordinated_snapshots_per_worker
Candidates(files) ==
    {f \in files : Len(f) >= 2 /\ f[1] = "uncoordinated" /\ Len(f) >= 5}

\* one of the three int(...) conversions raises ValueError
GroupingRaises(files) ==
    \E f \in Candidates(files) :
        \/ ~IsIntStr(f[2])
        \/ ~IsIntStr(f[4])
        \/ ~IsIntStr(SplitDot0(f[5]))

\* (worker_id, operator_name, partition) of a file
GroupOf(f) == <<PyInt(f[2]), f[3], PyInt(f[4])>>

ParsedSnapshotId(f) == PyInt(SplitDot0(f[5]))

\* the delta right above the bound is compacted too
KeptByBoundOffByOne(sn_id, max_snap_id) == sn_id <= max_snap_id + 1

\* "if snapshot_id <= max_snap_id:"
KeptByBound(sn_id, max_snap_id) == sn_id <= max_snap_id

\* snapshots_per_worker, flattened: group -> sorted list of <<snapshot_id, file>>
GetUncoordinatedSnapshotsPerWorker(files, max_snap_id) ==
    LET kept == {f \in Candidates(files) : KeptByBound(ParsedSnapshotId(f), max_snap_id)}
    IN [g \in {GroupOf(f) : f \in kept} |->
            SortById({<<ParsedSnapshotId(f), f>> : f \in {x \in kept : GroupOf(x) = g}})]

\* only empty groups are skipped
NoCompactionNeededEmptyOnly(snapshots) == Len(snapshots) <= 0

\* "if len(snapshots) <= 1: continue"
NoCompactionNeeded(snapshots) == Len(snapshots) <= 1

\* the merge loop over the deltas of one group
RECURSIVE CompactMerge(_, _, _)
CompactMerge(st, data, snapshots) ==
    IF snapshots = <<>> THEN data
    ELSE LET partition_data == st[Head(snapshots)[2]]
         IN CompactMerge(st,
                         IF Truthy(partition_data) THEN DictUpdate(data, partition_data)
                                                   ELSE data,
                         Tail(snapshots))

\* the names the merge loop appends to snapshots_to_delete
SourceNames(snapshots) == [i \in 1..Len(snapshots) |-> snapshots[i][2]]

\* f"uncoordinated/{worker_id}/{operator_name}/{partition}/0.bin"
MergedSnapshotPath(g) == <<"uncoordinated", ToStr(g[1]), g[2], ToStr(g[3]), "0.bin">>

\* start_uncoordinated_snapshot_compaction up to the first loop iteration:
\* list the bucket, group the files.  Every bucket a run can leave behind
\* is also a bucket a behaviour starts from, so the later runs of one
\* behaviour only repeat the bound of its first run.
StartCompaction(max_snap_id) ==
    /\ cpc \in {"idle", "done", "error"}
    /\ cruns < MaxRuns
    /\ cruns = 0 \/ max_snap_id = cmax
    /\ cruns' = cruns + 1
    /\ prev' = IF cruns = 0 THEN NoPrev
               ELSE [status |-> cpc, max |-> cmax, merged |-> cmerged]
    /\ cmax' = max_snap_id
    /\ store0' = store
    /\ oplog' = <<>>
    /\ to_delete' = <<>>
    /\ cmerged' = {}
    /\ LET files == ListAllObjects(store)
       IN IF GroupingRaises(files)
          THEN /\ cpc' = "error"
               /\ cgroups' = <<>>
               /\ cpending' = {}
          ELSE /\ cpc' = "merging"
               /\ cgroups' = GetUncoordinatedSnapshotsPerWorker(files, max_snap_id)
               /\ cpending' = DOMAIN cgroups'
    /\ cfaults' = NoFaults
    /\ UNCHANGED <<store, now, polled, rec>>
    /\ UNCHANGED workerVars
    /\ UNCHANGED auxVars

\* the groups the names of the bucket can form
GroupUniverse == Workers \X {"orders"} \X {0, 1}

\* one iteration of "for operator_partition, snapshots in worker_snapshots.items()"
CompactGroup(g) ==
    /\ cpc = "merging"
    /\ g \in cpending
    /\ cpending' = cpending \ {g}
    /\ IF NoCompactionNeeded(cgroups[g])
       THEN UNCHANGED <<store, to_delete, oplog, cmerged>>
       ELSE LET data == CompactMerge(store, EmptyDict, cgroups[g])
            IN /\ to_delete' = to_delete \o SourceNames(cgroups[g])
               /\ cmerged' = cmerged \cup {g}
               /\ IF Truthy(data)
                  THEN /\ store' = PutObject(store, MergedSnapshotPath(g), data)
                       /\ oplog' = Append(oplog, <<"put", MergedSnapshotPath(g)>>)
                  ELSE UNCHANGED <<store, oplog>>
    /\ UNCHANGED <<cpc, cmax, cgroups, store0, cruns, prev, cfaults, now, polled, rec>>
    /\ UNCHANGED workerVars
    /\ UNCHANGED auxVars

\* the cleanup runs although a merge raised
AfterMergeFailureCleansUp == "cleanup"

\* an exception in the loops leaves compact_uncoordinated_deltas before the
\* "if snapshots_to_delete:" block
AfterMergeFailure == "error"

\* an iteration of the group loop in which get_object or the decoding of a
\* source raises: nothing in compact_uncoordinated_deltas catches it, and
\* start_uncoordinated_snapshot_compaction logs it and raises it again
CompactGroupFails(g) ==
    /\ cpc = "merging"
    /\ g \in cpending
    /\ ~NoCompactionNeeded(cgroups[g])
    /\ cpc' = AfterMergeFailure
    /\ cfaults' = [cfaults EXCEPT !.merge = @ \cup {g}]
    /\ UNCHANGED <<store, cmax, cgroups, cpending, to_delete, oplog, store0,
                   cmerged, cruns, prev, now, polled, rec>>
    /\ UNCHANGED workerVars
    /\ UNCHANGED auxVars

\* the loops are over: "if snapshots_to_delete:" decides whether cleanup runs
EndMerging ==
    /\ cpc = "merging"
    /\ cpending = {}
    /\ cpc' = IF to_delete # <<>> THEN "cleanup" ELSE "done"
    /\ UNCHANGED <<store, cmax, cgroups, cpending, to_delete, oplog, store0,
                   cmerged, cruns, prev, cfaults, now, polled, rec>>
    /\ UNCHANGED workerVars
    /\ UNCHANGED auxVars

\* one iteration of the loop of cleanup_compacted_files
CleanupNext ==
    /\ cpc = "cleanup"
    /\ to_delete # <<>>
    /\ store' = RemoveObject(store, Head(to_delete))
    /\ oplog' = Append(oplog, <<"delete", Head(to_delete)>>)
    /\ to_delete' = Tail(to_delete)
    /\ cpc' = IF Tail(to_delete) = <<>> THEN "done" ELSE "cleanup"
    /\ UNCHANGED <<cmax, cgroups, cpending, store0, cmerged, cruns, prev, cfaults,
                   now, polled, rec>>
    /\ UNCHANGED workerVars
    /\ UNCHANGED auxVars

\* an iteration of the loop of cleanup_compacted_files in which remove_object
\* raises: the try block around the loop ends it, the exception is logged
CleanupFails ==
    /\ cpc = "cleanup"
    /\ to_delete # <<>>
    /\ cpc' = "done"
    /\ cfaults' = [cfaults EXCEPT !.delete = @ \cup {Head(to_delete)}]
    /\ UNCHANGED <<store, cmax, cgroups, cpending, to_delete, oplog, store0,
                   cmerged, cruns, prev, now, polled, rec>>
    /\ UNCHANGED workerVars
    /\ UNCHANGED auxVars

(***************************************************************************)
(* Buckets the runs start from                                             *)
(***************************************************************************)
\* every assignment of dicts to a subset of the given object names
DeltaStores(names) == UNION {[K -> KVPairs] : K \in SUBSET names}

SeqRecords ==
    {<<[p0 |-> 10], [p0 |-> 1], 1, 5>>,
     <<[p0 |-> 20, p1 |-> 5], EmptyDict, 2, 9>>,
     <<[p1 |-> 7], [p1 |-> 3], 3, 12>>}

SeqStores(names) == UNION {[K -> SeqRecords] : K \in SUBSET names}

\* deltas of worker 1, operator "orders", partition 0
G1Names == {GetSnapshotPath(1, "orders", 0, i) : i \in SnapIds}

Seq1Names == {GetSequencerPath(1, i) : i \in SnapIds}

EmptyStore == <<>>

\* a second worker with two deltas and a sequencer record
SecondWorkerStore ==
    (GetSnapshotPath(2, "orders", 0, 1) :> [a |-> 1])
        @@ (GetSnapshotPath(2, "orders", 0, 2) :> [b |-> 2])
        @@ (GetSequencerPath(2, 1) :> <<[p0 |-> 10], [p0 |-> 1], 1, 5>>)

\* a group of one delta, a sequencer record, and names outside the delta namespace
BystanderStore ==
    (GetSnapshotPath(1, "orders", 1, 1) :> [b |-> 1])
        @@ (GetSequencerPath(1, 0) :> <<[p0 |-> 10], [p0 |-> 1], 1, 5>>)
        @@ (<<"data", "orders", "0", "1.bin">> :> [a |-> 1])
        @@ (<<"data", "1", "orders", "0", "1.bin">> :> [a |-> 2])
        @@ (<<"data", "1", "orders", "0", "2.bin">> :> [b |-> 1])
        @@ (<<"uncoordinated", "1", "orders", "7.bin">> :> [a |-> 2])
        @@ (<<"uncoordinated", "1", "orders", "0", "0.tmp">> :> [a |-> 2])

\* names that do not parse
BadIdStore == (<<"uncoordinated", "1", "orders", "0", "tmp.bin">> :> [a |-> 1])

BadWorkerStore == (<<"uncoordinated", "w", "orders", "0", "1.bin">> :> [a |-> 1])

BadPartitionStore == (<<"uncoordinated", "1", "orders", "x", "1.bin">> :> [a |-> 1])

OtherStores ==
    {EmptyStore, SecondWorkerStore, BystanderStore,
     BadIdStore, BadWorkerStore, BadPartitionStore}

SmallDeltaStores ==
    {EmptyStore,
     (GetSnapshotPath(1, "orders", 0, 0) :> [a |-> 1])
         @@ (GetSnapshotPath(1, "orders", 0, MaxSnapId) :> [b |-> 2])}

InitStores ==
    {a @@ b : a \in DeltaStores(G1Names), b \in OtherStores}
        \cup {a @@ b : a \in SeqStores(Seq1Names), b \in SmallDeltaStores}

(***************************************************************************)
(* Worker snapshot lifecycle                                               *)
(***************************************************************************)
\* n_assigned_partitions given to the constructor
\* one partition too many is counted
NAssignedPartitionsOneMore(w) == Cardinality(RegisteredOperators(w)) + 1

\* self.n_assigned_partitions
NAssignedPartitions(w) == Cardinality(RegisteredOperators(w))

\* (input offsets, output offsets, epoch counter, t counter) the engine passes
MetaChoices ==
    {<<[p0 |-> 10], [p0 |-> 1], 1, 5>>,
     <<[p0 |-> 20, p1 |-> 5], EmptyDict, 2, 9>>}

\* the interval test is not strict
ShouldTakeSnapshotValueNotStrict(w) ==
    /\ now - last_snapshot_time[w] >= SnapshotInterval
    /\ ~snapshot_in_progress[w]

\* the value of should_take_snapshot()
ShouldTakeSnapshotValue(w) ==
    /\ now - last_snapshot_time[w] > SnapshotInterval
    /\ ~snapshot_in_progress[w]

\* the processing loop polls should_take_snapshot() and holds the answer
ShouldTakeSnapshot(w) ==
    /\ polled[w] = "none"
    /\ polled' = [polled EXCEPT ![w] = IF ShouldTakeSnapshotValue(w) THEN "yes" ELSE "no"]
    /\ UNCHANGED <<store, now, rec>>
    /\ UNCHANGED workerVars
    /\ UNCHANGED compVars
    /\ UNCHANGED auxVars

\* the answer was False: the processing loop goes on without a snapshot
ContinueProcessing(w) ==
    /\ polled[w] = "no"
    /\ polled' = [polled EXCEPT ![w] = "none"]
    /\ UNCHANGED <<store, now, rec>>
    /\ UNCHANGED workerVars
    /\ UNCHANGED compVars
    /\ UNCHANGED auxVars

\* the snapshot id the worker started from: 0, or what its recovery set
FirstSnapshotId(w) ==
    IF rec.status # "none" /\ rec.worker = w THEN NextSnapshotId(rec.target) ELSE 0

\* rounds the worker has started since it came up
RoundsStarted(w) ==
    snapshot_id[w] - FirstSnapshotId(w) + (IF snapshot_in_progress[w] THEN 1 ELSE 0)

\* the writes the processing loop dispatches for a round: one delta per
\* registered partition and the sequencer record, all named with the
\* snapshot id of the round
DispatchedWrites(w) ==
    {GetSnapshotPath(w, op[1], op[2], snapshot_id[w]) : op \in RegisteredOperators(w)}
        \cup {GetSequencerPath(w, snapshot_id[w])}

\* start_snapshotting; the processing loop calls it when the answer was True
\* and then dispatches the writes of the round
StartSnapshotting(w, meta) ==
    /\ polled[w] = "yes"
    /\ RoundsStarted(w) < MaxRounds
    /\ \A v \in ConfiguredWorkers \ {w} : RoundsStarted(v) = 0   \* one worker takes rounds
    /\ polled' = [polled EXCEPT ![w] = "none"]
    /\ snapshot_in_progress' = [snapshot_in_progress EXCEPT ![w] = TRUE]
    /\ snapshot_start' = [snapshot_start EXCEPT ![w] = now * 1000]
    /\ current_meta' = [current_meta EXCEPT ![w] = meta]
    /\ pending' = [pending EXCEPT ![w] = @ \cup DispatchedWrites(w)]
    /\ UNCHANGED <<store, snapshot_id, completed_snapshots, last_snapshot_time, now, rec>>
    /\ UNCHANGED <<notif, awaiting, last_store, pathq, units>>
    /\ UNCHANGED compVars

\* the state delta an operator partition hands to a round
RoundDeltas == {[a |-> 2, b |-> 1]}

IsSequencerName(name) == Len(name) = 4

\* a failed put is reported as a success
StoreSnapshotOutcomeSwallowed(put_ok) == "True"

\* store_snapshot returns True after put_object; an exception of put_object
\* is not caught
StoreSnapshotOutcome(put_ok) == IF put_ok THEN "True" ELSE "raised"

\* the completion of a partition's write is reported to the worker only when
\* store_snapshot returned
CompletionReported(name, outcome) == ~IsSequencerName(name) /\ outcome = "True"

\* nothing is put
StoreAfterPutNothing(st, name, payload, put_ok) == st

\* "minio_client.put_object(bucket, snapshot_name, ...)": the object is there
\* when the put succeeded, and the store is as it was when it raised
StoreAfterPut(st, name, payload, put_ok) ==
    IF put_ok THEN PutObject(st, name, payload) ELSE st

\* store_snapshot(snapshot_id, snapshot_name, data_to_snapshot) for one
\* dispatched write; put_ok is what the object store does with the put
StoreSnapshot(w, name, payload, put_ok) ==
    /\ name \in pending[w]
    /\ name = GetSequencerPath(w, snapshot_id[w]) => payload = current_meta[w]
    /\ pending' = [pending EXCEPT ![w] = @ \ {name}]
    /\ store' = StoreAfterPut(store, name, payload, put_ok)
    /\ last_store' = [name |-> name, payload |-> payload, put_ok |-> put_ok,
                      outcome |-> StoreSnapshotOutcome(put_ok), before |-> store]
    /\ awaiting' = [awaiting EXCEPT ![w] =
                        IF CompletionReported(name, StoreSnapshotOutcome(put_ok))
                        THEN @ + 1 ELSE @]
    /\ UNCHANGED <<now, polled, rec, notif, pathq, units>>
    /\ UNCHANGED workerVars
    /\ UNCHANGED compVars

NoNotif == [status |-> "none"]

NoCall == [outcome |-> "none"]

NoPath == [kind |-> "none"]

\* the message is built after the increment
NotifiedSnapshotIdNew(w) == snapshot_id[w] + 1

\* self.snapshot_id when _notify_coordinator_async runs
NotifiedSnapshotId(w) == snapshot_id[w]

\* the tuple handed to NetworkingManager.encode_message
NotificationMessage(w, snapshot_end) ==
    <<w, NotifiedSnapshotId(w), "UNCOORDINATED", snapshot_start[w], snapshot_end,
      current_meta[w][1], current_meta[w][2], current_meta[w][3], current_meta[w][4]>>

\* the comparison is made before the increment
RoundCompleteBeforeIncrement(w) == completed_snapshots[w] = NAssignedPartitions(w)

\* "self.completed_snapshots += 1" followed by
\* "if self.completed_snapshots == self.n_assigned_partitions"
RoundComplete(w) == completed_snapshots[w] + 1 = NAssignedPartitions(w)

\* an encoding error is not caught
NotifyRaisesUncaught(encode_ok) == ~encode_ok

\* _notify_coordinator_async wraps everything in try/except: nothing escapes
NotifyRaises(encode_ok) == FALSE

\* snapshot_completed_callback, run for a reported completion; encode_ok is
\* whether encode_message succeeds
SnapshotCompletedCallback(w, encode_ok) ==
    /\ awaiting[w] > 0
    /\ awaiting' = [awaiting EXCEPT ![w] = @ - 1]
    /\ IF RoundComplete(w)
       THEN /\ notif' = [notif EXCEPT ![w] =
                             [status |-> IF encode_ok THEN "pending" ELSE "encode_error",
                              msg |-> NotificationMessage(w, now * 1000)]]
            /\ IF NotifyRaises(encode_ok)
               THEN /\ completed_snapshots' = [completed_snapshots EXCEPT ![w] = @ + 1]
                    /\ UNCHANGED <<snapshot_id, snapshot_in_progress, last_snapshot_time>>
               ELSE /\ snapshot_id' = [snapshot_id EXCEPT ![w] = @ + 1]
                    /\ snapshot_in_progress' = [snapshot_in_progress EXCEPT ![w] = FALSE]
                    /\ completed_snapshots' = [completed_snapshots EXCEPT ![w] = 0]
                    /\ last_snapshot_time' = [last_snapshot_time EXCEPT ![w] = now]
       ELSE /\ encode_ok
            /\ completed_snapshots' = [completed_snapshots EXCEPT ![w] = @ + 1]
            /\ UNCHANGED <<snapshot_id, snapshot_in_progress, last_snapshot_time, notif>>
    /\ UNCHANGED <<store, snapshot_start, current_meta, now, polled, rec>>
    /\ UNCHANGED <<pending, last_store, pathq, units>>
    /\ UNCHANGED compVars

\* the notification thread: connect, send, close
NotificationSent(w) ==
    /\ notif[w].status = "pending"
    /\ notif' = [notif EXCEPT ![w].status = "sent"]
    /\ UNCHANGED <<store, now, polled, rec, pending, awaiting, last_store, pathq, units>>
    /\ UNCHANGED workerVars
    /\ UNCHANGED compVars

\* the notification thread: connect or send raises, the exception is logged
NotificationFailed(w) ==
    /\ notif[w].status = "pending"
    /\ notif' = [notif EXCEPT ![w].status = "failed"]
    /\ UNCHANGED <<store, now, polled, rec, pending, awaiting, last_store, pathq, units>>
    /\ UNCHANGED workerVars
    /\ UNCHANGED compVars

\* execution units that run snapshot_completed_callback
UnitIds == {1, 2}

IdleUnit == [pc |-> "idle", read |-> 0]

\* "if self.completed_snapshots == ...": the field is read again for the test
CounterAtTest(w, u) == completed_snapshots[w]

\* "self.completed_snapshots += 1", first half: the field is read
CallbackLoad(w, u) ==
    /\ awaiting[w] > 0
    /\ units[w][u].pc = "idle"
    /\ awaiting' = [awaiting EXCEPT ![w] = @ - 1]
    /\ units' = [units EXCEPT ![w][u] = [pc |-> "loaded", read |-> completed_snapshots[w]]]
    /\ UNCHANGED <<store, now, polled, rec, notif, pending, last_store, pathq>>
    /\ UNCHANGED workerVars
    /\ UNCHANGED compVars

\* "self.completed_snapshots += 1", second half: the sum is written back
CallbackStore(w, u) ==
    /\ units[w][u].pc = "loaded"
    /\ completed_snapshots' = [completed_snapshots EXCEPT ![w] = units[w][u].read + 1]
    /\ units' = [units EXCEPT ![w][u].pc = "stored"]
    /\ UNCHANGED <<store, snapshot_id, snapshot_in_progress, snapshot_start,
                   last_snapshot_time, current_meta, now, polled, rec>>
    /\ UNCHANGED <<notif, pending, awaiting, last_store, pathq>>
    /\ UNCHANGED compVars

\* "if self.completed_snapshots == self.n_assigned_partitions:"
CallbackTest(w, u) ==
    /\ units[w][u].pc = "stored"
    /\ units' = [units EXCEPT ![w][u] =
                     IF CounterAtTest(w, u) = NAssignedPartitions(w)
                     THEN [pc |-> "completing", read |-> 0]
                     ELSE IdleUnit]
    /\ UNCHANGED <<store, now, polled, rec, notif, pending, awaiting, last_store, pathq>>
    /\ UNCHANGED workerVars
    /\ UNCHANGED compVars

\* the body of the if: notify, increment the id, leave the round
CallbackComplete(w, u) ==
    /\ units[w][u].pc = "completing"
    /\ units' = [units EXCEPT ![w][u] = IdleUnit]
    /\ notif' = [notif EXCEPT ![w] =
                     [status |-> "pending", msg |-> NotificationMessage(w, now * 1000)]]
    /\ snapshot_id' = [snapshot_id EXCEPT ![w] = @ + 1]
    /\ snapshot_in_progress' = [snapshot_in_progress EXCEPT ![w] = FALSE]
    /\ completed_snapshots' = [completed_snapshots EXCEPT ![w] = 0]
    /\ last_snapshot_time' = [last_snapshot_time EXCEPT ![w] = now]
    /\ UNCHANGED <<store, snapshot_start, current_meta, now, polled, rec>>
    /\ UNCHANGED <<pending, awaiting, last_store, pathq>>
    /\ UNCHANGED compVars

\* the wall clock advances
Tick ==
    /\ now < MaxTime
    /\ now' = now + 1
    /\ UNCHANGED <<store, polled, rec>>
    /\ UNCHANGED workerVars
    /\ UNCHANGED compVars
    /\ UNCHANGED auxVars

(***************************************************************************)
(* Specifications                                                          *)
(***************************************************************************)
\* the fields of freshly constructed workers and of a compactor that has not run
Fresh ==
    /\ snapshot_id = [w \in ConfiguredWorkers |-> 0]
    /\ completed_snapshots = [w \in ConfiguredWorkers |-> 0]
    /\ snapshot_in_progress = [w \in ConfiguredWorkers |-> FALSE]
    /\ snapshot_start = [w \in ConfiguredWorkers |-> 0]
    /\ last_snapshot_time = [w \in ConfiguredWorkers |-> 0]
    /\ current_meta = [w \in ConfiguredWorkers |-> <<PyNone, PyNone, -1, -1>>]
    /\ polled = [w \in ConfiguredWorkers |-> "none"]
    /\ rec = NoRec
    /\ cpc = "idle"
    /\ cmax = 0
    /\ cgroups = <<>>
    /\ cpending = {}
    /\ to_delete = <<>>
    /\ oplog = <<>>
    /\ store0 = store
    /\ cmerged = {}
    /\ cruns = 0
    /\ prev = NoPrev
    /\ cfaults = NoFaults
    /\ notif = [w \in ConfiguredWorkers |-> NoNotif]
    /\ pending = [w \in ConfiguredWorkers |-> {}]
    /\ awaiting = [w \in ConfiguredWorkers |-> 0]
    /\ last_store = NoCall
    /\ pathq = NoPath
    /\ units = [w \in ConfiguredWorkers |-> [u \in UnitIds |-> IdleUnit]]

Init ==
    /\ store \in InitStores
    /\ now = SnapshotInterval + 1
    /\ Fresh

\* the compactor run against a bucket
Next ==
    \/ \E m \in SnapIds : StartCompaction(m)
    \/ \E g \in GroupUniverse : CompactGroup(g)
    \/ EndMerging
    \/ CleanupNext

Spec == Init /\ [][Next]_vars

\* compaction runs in which calls to the object store can fail, over buckets
\* with two groups
FaultDeltas == {EmptyDict, [a |-> 1], [a |-> 2, b |-> 1]}

FaultStores ==
    {a @@ SecondWorkerStore : a \in UNION {[K -> FaultDeltas] : K \in SUBSET G1Names}}

InitFaults ==
    /\ store \in FaultStores
    /\ now = SnapshotInterval + 1
    /\ Fresh

NextFaults ==
    \/ \E m \in SnapIds : StartCompaction(m)
    \/ \E g \in GroupUniverse : CompactGroup(g)
    \/ \E g \in GroupUniverse : CompactGroupFails(g)
    \/ EndMerging
    \/ CleanupNext
    \/ CleanupFails

SpecFaults == InitFaults /\ [][NextFaults]_vars

\* the storage paths of workers, operators, partitions and snapshot ids
PathInts == 0..MaxPathInt

OperatorNames == {"orders", "sequencer", "7"}

CallGetSnapshotPath(w, operator_name, partition, sn_id) ==
    /\ pathq = NoPath
    /\ pathq' = [kind |-> "state", args |-> <<w, operator_name, partition, sn_id>>,
                 key |-> GetSnapshotPath(w, operator_name, partition, sn_id)]
    /\ UNCHANGED <<store, now, polled, rec, notif, pending, awaiting, last_store, units>>
    /\ UNCHANGED workerVars
    /\ UNCHANGED compVars

CallGetSequencerPath(w, sn_id) ==
    /\ pathq = NoPath
    /\ pathq' = [kind |-> "sequencer", args |-> <<w, sn_id>>,
                 key |-> GetSequencerPath(w, sn_id)]
    /\ UNCHANGED <<store, now, polled, rec, notif, pending, awaiting, last_store, units>>
    /\ UNCHANGED workerVars
    /\ UNCHANGED compVars

InitPaths ==
    /\ store = EmptyStore
    /\ now = SnapshotInterval + 1
    /\ Fresh

NextPaths ==
    \/ \E w \in PathInts : \E operator_name \in OperatorNames :
           \E partition \in PathInts : \E sn_id \in PathInts :
               CallGetSnapshotPath(w, operator_name, partition, sn_id)
    \/ \E w \in PathInts : \E sn_id \in PathInts : CallGetSequencerPath(w, sn_id)

SpecPaths == InitPaths /\ [][NextPaths]_vars

\* a restarting worker recovering from a bucket
NextRecover ==
    \E w \in Workers : \E target \in -1..MaxSnapId : RetrieveSnapshot(w, target)

SpecRecover == Init /\ [][NextRecover]_vars

\* recoveries in which calls to the object store can fail
NextRecoverFaults ==
    \/ \E w \in Workers : \E target \in -1..MaxSnapId : RetrieveSnapshot(w, target)
    \/ \E w \in Workers : \E target \in -1..MaxSnapId : \E fault \in RetrieveFaults :
           RetrieveSnapshotFails(w, target, fault)

SpecRecoverFaults == InitFaults /\ [][NextRecoverFaults]_vars

\* every name and payload a round can write
PathUniverse ==
    {GetSnapshotPath(w, op[1], op[2], i) : w \in Workers, op \in RegisteredOperators(1), i \in 0..(MaxSnapId + MaxRounds + 1)}
        \cup {GetSequencerPath(w, i) : w \in ConfiguredWorkers, i \in 0..(MaxSnapId + MaxRounds + 1)}

PayloadsFor(name) == IF IsSequencerName(name) THEN MetaChoices ELSE RoundDeltas

\* the processing loops of the workers: poll, start a round, write, report completions
InitLife ==
    /\ Init
    /\ store = EmptyStore

NextLife ==
    \/ Tick
    \/ \E w \in Workers : ShouldTakeSnapshot(w)
    \/ \E w \in Workers : ContinueProcessing(w)
    \/ \E w \in Workers : \E meta \in MetaChoices : StartSnapshotting(w, meta)
    \/ \E w \in Workers : \E name \in PathUniverse : \E payload \in PayloadsFor(name) :
           \E put_ok \in BOOLEAN : StoreSnapshot(w, name, payload, put_ok)
    \/ \E w \in Workers : \E encode_ok \in BOOLEAN : SnapshotCompletedCallback(w, encode_ok)
    \/ \E w \in Workers : NotificationSent(w)
    \/ \E w \in Workers : NotificationFailed(w)

SpecLife == InitLife /\ [][NextLife]_vars

\* the completions of a round reported by several execution units at once
NextUnits ==
    \/ \E w \in Workers : ShouldTakeSnapshot(w)
    \/ \E w \in Workers : \E meta \in MetaChoices : StartSnapshotting(w, meta)
    \/ \E w \in Workers : \E name \in PathUniverse : \E payload \in PayloadsFor(name) :
           StoreSnapshot(w, name, payload, TRUE)
    \/ \E w \in Workers : \E u \in UnitIds : CallbackLoad(w, u)
    \/ \E w \in Workers : \E u \in UnitIds : CallbackStore(w, u)
    \/ \E w \in Workers : \E u \in UnitIds : CallbackTest(w, u)
    \/ \E w \in Workers : \E u \in UnitIds : CallbackComplete(w, u)

SpecUnits == InitLife /\ [][NextUnits]_vars

\* a bucket a restarting worker finds: deltas and sequencer records up to MaxSnapId
WrittenStore ==
    [name \in G1Names \cup Seq1Names |->
        IF name \in Seq1Names THEN <<[p0 |-> 10], [p0 |-> 1], 1, 5>> ELSE [a |-> 1]]

RestartStores ==
    {WrittenStore @@ SecondWorkerStore,
     (GetSnapshotPath(1, "orders", 0, 0) :> [a |-> 1])
         @@ (GetSnapshotPath(1, "orders", 1, 1) :> [b |-> 2])}

\* a worker restarts over an existing bucket: recovery, then rounds
InitRestart ==
    /\ store \in RestartStores
    /\ now = MaxTime - SnapshotInterval - 1    \* time for two rounds
    /\ Fresh

NextRestart ==
    \/ \E w \in Workers : \E target \in -1..MaxSnapId : RetrieveSnapshot(w, target)
    \/ Tick
    \/ \E w \in Workers : ShouldTakeSnapshot(w)
    \/ \E w \in Workers : ContinueProcessing(w)
    \/ \E w \in Workers : \E meta \in MetaChoices : StartSnapshotting(w, meta)
    \/ \E w \in Workers : \E name \in PathUniverse : \E payload \in PayloadsFor(name) :
           \E put_ok \in BOOLEAN : StoreSnapshot(w, name, payload, put_ok)
    \/ \E w \in Workers : SnapshotCompletedCallback(w, TRUE)

SpecRestart == InitRestart /\ [][NextRestart]_vars

\* rounds in which every write succeeds and reports its completion; one of
\* the workers owns no partition
InitRounds ==
    /\ store = EmptyStore
    /\ now = MaxTime - SnapshotInterval - 1
    /\ Fresh

WriteSucceeds(w) ==
    \E name \in PathUniverse : \E payload \in PayloadsFor(name) :
        StoreSnapshot(w, name, payload, TRUE)

NextRounds ==
    \/ Tick
    \/ \E w \in ConfiguredWorkers : ShouldTakeSnapshot(w)
    \/ \E w \in ConfiguredWorkers : ContinueProcessing(w)
    \/ \E w \in ConfiguredWorkers : \E meta \in MetaChoices : StartSnapshotting(w, meta)
    \/ \E w \in ConfiguredWorkers : WriteSucceeds(w)
    \/ \E w \in ConfiguredWorkers : SnapshotCompletedCallback(w, TRUE)

\* a dispatched write is carried out and a reported completion reaches the callback
FairRounds ==
    \A w \in ConfiguredWorkers :
        /\ WF_vars(WriteSucceeds(w))
        /\ WF_vars(SnapshotCompletedCallback(w, TRUE))

SpecRounds == InitRounds /\ [][NextRounds]_vars /\ FairRounds

(***************************************************************************)
(* Properties                                                              *)
(***************************************************************************)
\* the snapshot id an object name carries in its last segment
IdOf(f) == PyInt(SplitDot0(Last(f)))

\* last-write-wins over the named deltas of bucket st: every key present in
\* one of them, with the value of the highest-id delta that holds it
LastWriteWins(st, names) ==
    LET holders(k) == {f \in names : k \in DOMAIN st[f]}
        latest(k) == CHOOSE f \in holders(k) : \A g \in holders(k) : IdOf(g) <= IdOf(f)
    IN [k \in UNION {DOMAIN st[f] : f \in names} |-> st[latest(k)][k]]

\* the deltas of worker w's partition op with id <= target
QualifyingDeltas(st, w, op, target) ==
    {f \in ListObjects(st, PartitionPrefix(w, op)) : IdOf(f) <= target}

\* the sequencer records of worker w with id <= target
QualifyingRecords(st, w, target) ==
    {f \in ListObjects(st, SequencerPrefix(w)) : IdOf(f) <= target}

\* C1: recovery at a target returns, for every partition that has deltas up
\* to the target, the last-write-wins merge of these deltas in ascending id
\* order: each key has the value of the highest-id delta holding it, keys of
\* earlier deltas are retained, keys of no delta are absent.
C1_RecoveryIsLastWriteWins ==
    (rec.status = "ok" /\ rec.target >= 0) =>
        \A op \in RegisteredOperators(rec.worker) :
            LET names == QualifyingDeltas(store, rec.worker, op, rec.target)
            IN names # {} =>
                   /\ op \in DOMAIN rec.data
                   /\ rec.data[op] = LastWriteWins(store, names)

\* the groups of a bucket whose names all parse, and the deltas of a group
\* with id <= max_snap_id
GroupsOf(st) == {GroupOf(f) : f \in Candidates(ListAllObjects(st))}

GroupDeltas(st, g, max_snap_id) ==
    {f \in Candidates(ListAllObjects(st)) : GroupOf(f) = g /\ IdOf(f) <= max_snap_id}

\* every object stored under the prefix of group g, whatever its id or suffix
GroupObjects(st, g) ==
    {f \in DOMAIN st : Len(f) > 4 /\ SubSeq(f, 1, 4) = SubSeq(MergedSnapshotPath(g), 1, 4)}

\* C2: after a compaction run, every group that had more than one delta
\* with id <= max_snap_id is represented by exactly one such delta, at id 0,
\* holding the last-write-wins merge of the group's source deltas.
C2_CompactedGroupIsOneBase ==
    cpc = "done" =>
        \A g \in GroupsOf(store0) :
            Cardinality(GroupDeltas(store0, g, cmax)) > 1 =>
                /\ GroupDeltas(store, g, cmax) = {MergedSnapshotPath(g)}
                /\ store[MergedSnapshotPath(g)]
                       = LastWriteWins(store0, GroupDeltas(store0, g, cmax))

\* the state maps recovery at target returns to worker w on bucket st
RecoveredData(st, w, target) == RetrieveResult(st, w, target).data

\* C3: in every bucket state a compaction run with bound M passes through,
\* recovery at target M returns the state maps it returned before the run.
C3_CompactionIsCrashSafe ==
    cpc \in {"merging", "cleanup", "done"} =>
        \A w \in Workers : RecoveredData(store, w, cmax) = RecoveredData(store0, w, cmax)

\* C4: a group with at most one delta with id <= max_snap_id is left alone
\* by a compaction run: none of its objects is written or deleted, and a
\* bucket with only such groups is unchanged.
C4_SmallGroupUntouched ==
    cpc \in {"merging", "cleanup", "done"} =>
        /\ \A g \in GroupsOf(store0) :
               Cardinality(GroupDeltas(store0, g, cmax)) <= 1 =>
                   /\ GroupObjects(store, g) = GroupObjects(store0, g)
                   /\ \A f \in GroupObjects(store0, g) : store[f] = store0[f]
                   /\ \A i \in 1..Len(oplog) : oplog[i][2] \notin GroupObjects(store0, g)
                   /\ \A i \in 1..Len(oplog) : oplog[i][2] # MergedSnapshotPath(g)
        /\ (\A g \in GroupsOf(store0) : Cardinality(GroupDeltas(store0, g, cmax)) <= 1)
               => (store = store0 /\ oplog = <<>>)

\* a finished run left a one-delta group in place while it merged another group
C4_Witness ==
    /\ cpc = "done"
    /\ cmerged # {}
    /\ \E g \in GroupsOf(store0) :
           /\ Cardinality(GroupDeltas(store0, g, cmax)) = 1
           /\ GroupObjects(store, g) # {}

\* C5: a second compaction run with the same bound finds exactly one delta,
\* the id-0 base, in every group the first run merged, issues no put and no
\* delete, and leaves the bucket as the first run left it.
C5_CompactionIsIdempotent ==
    (/\ cruns >= 2
     /\ prev.status = "done"
     /\ cmax = prev.max
     /\ cpc \in {"merging", "cleanup", "done"}) =>
        /\ \A g \in prev.merged :
               /\ g \in DOMAIN cgroups
               /\ Len(cgroups[g]) = 1
               /\ cgroups[g][1] = <<0, MergedSnapshotPath(g)>>
        /\ oplog = <<>>
        /\ store = store0

\* the bucket without the objects whose id is above target
UpTo(st, target) ==
    LET above(f) == /\ EndsWithBin(Last(f))
                    /\ IsIntStr(SplitDot0(Last(f)))
                    /\ IdOf(f) > target
    IN [f \in {x \in DOMAIN st : ~above(x)} |-> st[f]]

\* C6: recovery at a target fetches no delta and no sequencer record with a
\* higher id, and returns what it returns on the bucket without the objects
\* above the target.
C6_RecoveryIgnoresLaterIds ==
    rec.status = "ok" =>
        /\ \A f \in rec.reads : IdOf(f) <= rec.target
        /\ rec = RetrieveResult(UpTo(store, rec.target), rec.worker, rec.target)

\* recovery fetched objects while deltas and records above its target were listed
C6_Witness ==
    /\ rec.status = "ok"
    /\ rec.target >= 0
    /\ rec.reads # {}
    /\ \E op \in RegisteredOperators(rec.worker) :
           \E f \in ListObjects(store, PartitionPrefix(rec.worker, op)) : IdOf(f) > rec.target
    /\ \E f \in ListObjects(store, SequencerPrefix(rec.worker)) : IdOf(f) > rec.target

\* C7: recovery at -1 touches no object and returns empty state, an empty
\* input-offset map, an empty output-offset map, epoch 0 and t-counter 0.
C7_FreshStartBaseline ==
    (rec.status # "none" /\ rec.target = -1) =>
        /\ rec.status = "ok"
        /\ rec.reads = {}
        /\ rec.data = EmptyDict
        /\ rec.tpo = PyDict(EmptyDict)
        /\ rec.tpoo = PyDict(EmptyDict)
        /\ rec.epoch = 0
        /\ rec.t_counter = 0

\* C8: recovery returns the whole sequencer record with the highest id up to
\* the target and nothing of any other record; without such a record it
\* returns empty offset maps, epoch 0 and t-counter 0.
C8_SequencerIsFullReplacement ==
    (rec.status = "ok" /\ rec.target >= 0) =>
        LET names == QualifyingRecords(store, rec.worker, rec.target)
            top == CHOOSE f \in names : \A g \in names : IdOf(g) <= IdOf(f)
        IN /\ rec.tpo.t = "dict"
           /\ rec.tpoo.t = "dict"
           /\ <<rec.tpo.v, rec.tpoo.v, rec.epoch, rec.t_counter>>
                  = IF names = {} THEN <<EmptyDict, EmptyDict, 0, 0>> ELSE store[top]

\* recovery chose among at least two different records and skipped a later one
C8_Witness ==
    /\ rec.status = "ok"
    /\ rec.target >= 0
    /\ \E f, g \in QualifyingRecords(store, rec.worker, rec.target) :
           IdOf(f) < IdOf(g) /\ store[f] # store[g]
    /\ \E f \in ListObjects(store, SequencerPrefix(rec.worker)) : IdOf(f) > rec.target

\* C9: an object name that does not parse makes neither recovery nor
\* compaction raise.
C9_UnparsableNameIsSkipped ==
    /\ cpc # "error"
    /\ rec.status # "error"

\* C10: should_take_snapshot answers True exactly when no snapshot is in
\* progress and the time since the last completed round strictly exceeds
\* the interval, and the call changes no field of the worker and no object.
C10_ShouldTakeSnapshot ==
    [][\A w \in Workers :
           (polled[w] = "none" /\ polled'[w] # "none") =>
               /\ (polled'[w] = "yes") <=>
                      (/\ ~snapshot_in_progress[w]
                       /\ now - last_snapshot_time[w] > SnapshotInterval)
               /\ UNCHANGED workerVars
               /\ UNCHANGED <<store, now>>]_vars

\* an idle worker was polled exactly one interval after its last round and
\* the answer was False
C10_Witness ==
    \E w \in Workers :
        /\ polled[w] = "no"
        /\ ~snapshot_in_progress[w]
        /\ snapshot_id[w] > 0
        /\ now - last_snapshot_time[w] = SnapshotInterval

(***************************************************************************)
(* C11: in a round of a worker with n owned partitions, each of the first  *)
(* n-1 calls of snapshot_completed_callback only adds one to the completed *)
(* counter (the round stays in progress, the snapshot id and the last      *)
(* completion time are unchanged), and the n-th call completes the round   *)
(* in one step: snapshot id + 1, counter 0, not in progress, last          *)
(* completion time = the current time.                                     *)
(***************************************************************************)
OwnedPartitions(w) == Cardinality(RegisteredOperators(w))

\* a step of snapshot_completed_callback of worker w
CallbackStep(w) == awaiting'[w] < awaiting[w]

C11_RoundCompletesAtLastCallback ==
    [][\A w \in Workers :
           (CallbackStep(w) /\ snapshot_in_progress[w]) =>
               IF completed_snapshots[w] + 1 < OwnedPartitions(w)
               THEN /\ completed_snapshots'[w] = completed_snapshots[w] + 1
                    /\ snapshot_in_progress'[w]
                    /\ snapshot_id'[w] = snapshot_id[w]
                    /\ last_snapshot_time'[w] = last_snapshot_time[w]
               ELSE /\ completed_snapshots[w] + 1 = OwnedPartitions(w)
                    /\ snapshot_id'[w] = snapshot_id[w] + 1
                    /\ completed_snapshots'[w] = 0
                    /\ ~snapshot_in_progress'[w]
                    /\ last_snapshot_time'[w] = now]_vars

\* a worker with two partitions has completed its second round after the
\* clock moved on
C11_Witness ==
    /\ OwnedPartitions(1) = 2
    /\ snapshot_id[1] = 2
    /\ ~snapshot_in_progress[1]
    /\ completed_snapshots[1] = 0
    /\ last_snapshot_time[1] > SnapshotInterval + 1

(***************************************************************************)
(* C12: a round completes only when the delta of every owned partition is  *)
(* in the store: every round a worker has completed left one delta per     *)
(* partition under the round's id, and while a round has a partition whose *)
(* write failed, the completed counter stays below the number of owned     *)
(* partitions, so the id is not incremented and the round stays in         *)
(* progress.                                                               *)
(***************************************************************************)
DeltaNames(w, sn_id) ==
    {GetSnapshotPath(w, op[1], op[2], sn_id) : op \in RegisteredOperators(w)}

\* deltas of the round in progress whose write was executed and left no object
FailedDeltaWrites(w) ==
    {name \in DeltaNames(w, snapshot_id[w]) : name \notin pending[w] /\ name \notin DOMAIN store}

RecoveredTo(w) == IF rec.status # "none" /\ rec.worker = w THEN rec.target ELSE -1

\* the objects of worker w in a store
WorkerObjects(st, w) == {k \in DOMAIN st : k[2] = ToStr(w)}

\* a step that executes one dispatched write of worker w
WriteStep(w) == pending'[w] # pending[w] /\ pending'[w] \subseteq pending[w]

C13_RecoveryAvoidsCollisions ==
    [][\A w \in Workers :
           /\ (rec.status = "none" /\ RecoveredTo(w)' >= 0) =>
                  snapshot_id'[w] = RecoveredTo(w)' + 1
           /\ (RecoveredTo(w) >= 0 /\ WriteStep(w)) =>
                  /\ \A name \in pending[w] \ pending'[w] : IdOf(name) > RecoveredTo(w)
                  /\ \A k \in WorkerObjects(store, w) :
                         IdOf(k) <= RecoveredTo(w) =>
                             k \in DOMAIN store' /\ store'[k] = store[k]]_vars

\* worker 1 recovered to id 1 and has completed a round since, whose delta
\* replaced the object that was stored under id 2
C13_Witness ==
    /\ RecoveredTo(1) = 1
    /\ snapshot_id[1] = 3
    /\ GetSnapshotPath(1, "orders", 0, 2) \in DOMAIN store0
    /\ store[GetSnapshotPath(1, "orders", 0, 2)] \in RoundDeltas
    /\ store[GetSnapshotPath(1, "orders", 0, 1)] = store0[GetSnapshotPath(1, "orders", 0, 1)]

(***************************************************************************)
(* C14: the coordinator notification is fire-and-forget: the callback that *)
(* completes a round leaves the worker with the id incremented, the        *)
(* counter at 0 and no round in progress whether the message was encoded   *)
(* and handed to a thread or the encoding failed, and a step of the        *)
(* notification thread (sent or failed) changes no field of the worker,    *)
(* no dispatched write and no object.                                      *)
(***************************************************************************)
CompletingStep(w) ==
    /\ CallbackStep(w)
    /\ snapshot_in_progress[w]
    /\ completed_snapshots[w] + 1 = OwnedPartitions(w)

C14_NotificationIsFireAndForget ==
    [][\A w \in Workers :
           /\ CompletingStep(w) =>
                  /\ notif'[w].status \in {"pending", "encode_error"}
                  /\ snapshot_id'[w] = snapshot_id[w] + 1
                  /\ completed_snapshots'[w] = 0
                  /\ ~snapshot_in_progress'[w]
           /\ (notif'[w] # notif[w] /\ ~CallbackStep(w)) =>
                  /\ notif[w].status = "pending"
                  /\ UNCHANGED <<store, polled, pending, awaiting, now>>
                  /\ UNCHANGED workerVars]_vars

\* the notification of the first round failed at encoding and the worker is
\* one callback short of completing its second round
C14_Witness ==
    /\ notif[1].status = "encode_error"
    /\ snapshot_id[1] = 1
    /\ snapshot_in_progress[1]
    /\ completed_snapshots[1] = 1

(***************************************************************************)
(* C15 as stated: the notification built when a round completes is         *)
(* (worker id, new snapshot id, "UNCOORDINATED", start, end, input         *)
(* offsets, output offsets, epoch, t counter), the new snapshot id being   *)
(* the value the snapshot id holds once the round has completed.           *)
(***************************************************************************)
RoundTuple(w, sn_id) ==
    <<w, sn_id, "UNCOORDINATED", snapshot_start[w], now * 1000,
      current_meta[w][1], current_meta[w][2], current_meta[w][3], current_meta[w][4]>>

\* start and metadata fields are the ones the last start_snapshotting recorded
StartFieldsOnlySetByStart(w) ==
    IF ~snapshot_in_progress[w] /\ snapshot_in_progress'[w]
    THEN snapshot_start'[w] = now * 1000 /\ current_meta'[w] \in MetaChoices
    ELSE snapshot_start'[w] = snapshot_start[w] /\ current_meta'[w] = current_meta[w]

C15_NotificationCarriesIdAfterCompletion ==
    [][\A w \in Workers :
           CompletingStep(w) => notif'[w].msg = RoundTuple(w, snapshot_id'[w])]_vars

(***************************************************************************)
(* C15, amended: the second element of the tuple is the id of the round    *)
(* that has just completed, the value the snapshot id held during the      *)
(* round (one less than the value it holds once the round has completed);  *)
(* the other elements are as stated.                                       *)
(***************************************************************************)
C15_NotificationCarriesCompletedRoundId ==
    [][\A w \in Workers :
           /\ StartFieldsOnlySetByStart(w)
           /\ CompletingStep(w) =>
                  /\ notif'[w].msg = RoundTuple(w, snapshot_id[w])
                  /\ notif'[w].msg[2] = snapshot_id'[w] - 1]_vars

\* the second round of a worker has been notified with id 1 and the metadata
\* of its start
C15_Witness ==
    /\ notif[1].status = "pending"
    /\ notif[1].msg[2] = 1
    /\ snapshot_id[1] = 2
    /\ notif[1].msg[6] = current_meta[1][1]
    /\ notif[1].msg[5] > notif[1].msg[4]

(***************************************************************************)
(* C16: a failure while merging one group aborts only that group: the run  *)
(* does not end in an error, and every other group with more than one      *)
(* qualifying delta is merged and has its source objects deleted in the    *)
(* same run.                                                               *)
(***************************************************************************)
RunOver == cpc \in {"done", "error"} /\ cruns > 0

C16_MergeFailureIsPerGroup ==
    (RunOver /\ cfaults.merge # {}) =>
        /\ cpc = "done"
        /\ \A g \in DOMAIN cgroups \ cfaults.merge :
               ~NoCompactionNeeded(cgroups[g]) =>
                   /\ g \in cmerged
                   /\ \A i \in 1..Len(cgroups[g]) :
                          \/ cgroups[g][i][2] \notin DOMAIN store
                          \/ cgroups[g][i][2] = MergedSnapshotPath(g)

(***************************************************************************)
(* C17: a failure to delete one marked object is caught, every other       *)
(* marked object is still deleted in the same run, the run ends normally   *)
(* and what the merges wrote is not undone.                                *)
(***************************************************************************)
C17_DeleteFailureIsPerKey ==
    (RunOver /\ cfaults.delete # {}) =>
        /\ cpc = "done"
        /\ \A g \in cmerged : \A i \in 1..Len(cgroups[g]) :
               \/ cgroups[g][i][2] \in cfaults.delete
               \/ cgroups[g][i][2] \notin DOMAIN store

(***************************************************************************)
(* C18: when recovery at a target >= 0 succeeds, a registered partition    *)
(* without any delta up to the target has an entry in the returned state,  *)
(* and the entry is the empty map.                                         *)
(***************************************************************************)
C18_EmptyPartitionHasEmptyEntry ==
    (rec.status = "ok" /\ rec.target >= 0) =>
        \A op \in RegisteredOperators(rec.worker) :
            QualifyingDeltas(store, rec.worker, op, rec.target) = {} =>
                /\ op \in DOMAIN rec.data
                /\ rec.data[op] = EmptyDict

(***************************************************************************)
(* C19: the state path is uncoordinated/<workerId>/<op>/<p>/<id>.bin and   *)
(* the sequencer path uncoordinated/<workerId>/sequencer/<id>.bin, with    *)
(* unpadded decimal integers; parsing a state path the way the compactor   *)
(* and recovery do returns the worker id, operator, partition and id it    *)
(* was built from; and different arguments give different paths.           *)
(***************************************************************************)
StatePathArgs == PathInts \X OperatorNames \X PathInts \X PathInts

C19_PathLayoutAndRoundTrip ==
    /\ pathq.kind = "state" =>
           LET a == pathq.args
               k == pathq.key
           IN /\ k = <<"uncoordinated", Decimals[a[1] + 1], a[2], Decimals[a[3] + 1],
                       Decimals[a[4] + 1] \o ".bin">>
              /\ Candidates({k}) = {k}
              /\ ~GroupingRaises({k})
              /\ GroupOf(k) = <<a[1], a[2], a[3]>>
              /\ ParsedSnapshotId(k) = a[4]
              /\ EndsWithBin(Last(k))
              /\ MergeOrder({k}) = <<<<a[4], k>>>>
              /\ \A t \in StatePathArgs :
                     t # a => GetSnapshotPath(t[1], t[2], t[3], t[4]) # k
              /\ \A w \in PathInts, i \in PathInts : GetSequencerPath(w, i) # k
    /\ pathq.kind = "sequencer" =>
           LET a == pathq.args
               k == pathq.key
           IN /\ k = <<"uncoordinated", Decimals[a[1] + 1], "sequencer",
                       Decimals[a[2] + 1] \o ".bin">>
              /\ MergeOrder({k}) = <<<<a[2], k>>>>
              /\ \A w \in PathInts, i \in PathInts :
                     <<w, i>> # a => GetSequencerPath(w, i) # k

\* the path of a two-digit worker id and snapshot id for an operator named
\* like the sequencer marker
C19_Witness ==
    /\ pathq.kind = "state"
    /\ pathq.args[1] = 10
    /\ pathq.args[2] = "sequencer"
    /\ pathq.args[4] = 10
    /\ pathq.key[5] = "10.bin"

(***************************************************************************)
(* C20: store_snapshot makes one put of the payload under the given name:  *)
(* when the put succeeds it returns True and the store differs from the    *)
(* one before exactly in holding the payload under that name; when the put *)
(* fails the exception reaches the caller and the store is as before; and  *)
(* storing the same payload under the same name once more leaves the store *)
(* as it is.                                                               *)
(***************************************************************************)
C20_StoreSnapshotIsOnePut ==
    [][\A w \in Workers :
           WriteStep(w) =>
               LET c == last_store'
               IN /\ pending[w] \ pending'[w] = {c.name}
                  /\ c.before = store
                  /\ (c.outcome = "True") <=> c.put_ok
                  /\ (c.outcome = "raised") <=> ~c.put_ok
                  /\ c.put_ok =>
                         /\ DOMAIN store' = DOMAIN store \cup {c.name}
                         /\ store'[c.name] = c.payload
                         /\ \A k \in DOMAIN store \ {c.name} : store'[k] = store[k]
                         /\ PutObject(store', c.name, c.payload) = store'
                  /\ ~c.put_ok => store' = store]_vars

\* a successful call replaced an object that held something else
C20_Witness ==
    /\ last_store.outcome = "True"
    /\ last_store.name \in DOMAIN last_store.before
    /\ last_store.before[last_store.name] # last_store.payload
    /\ store[last_store.name] = last_store.payload

(***************************************************************************)
(* C21: recovery fails fast: when a list or get against the object store   *)
(* raises, or a payload cannot be decoded, during retrieve_snapshot at a   *)
(* target >= 0, the call raises and returns no state, offsets or counters. *)
(***************************************************************************)
C21_RecoveryFailsFast ==
    (rec.status # "none" /\ "fault" \in DOMAIN rec) =>
        /\ rec.target >= 0
        /\ rec.status = "error"
        /\ DOMAIN rec \cap {"data", "tpo", "tpoo", "epoch", "t_counter"} = {}

\* a get failed in a recovery of worker 1 that had deltas to read
C21_Witness ==
    /\ rec.status = "error"
    /\ "fault" \in DOMAIN rec
    /\ rec.fault = "get"
    /\ rec.worker = 1
    /\ QualifyingDeltas(store, 1, <<"orders", 0>>, rec.target) # {}

(***************************************************************************)
(* C22: within one compaction run every put precedes every delete, and a   *)
(* run in which a merge failed issues no delete at all.                    *)
(***************************************************************************)
C22_PutsPrecedeDeletes ==
    /\ \A i \in 1..Len(oplog) : \A j \in 1..Len(oplog) :
           (oplog[i][1] = "delete" /\ oplog[j][1] = "put") => j < i
    /\ cfaults.merge # {} => \A i \in 1..Len(oplog) : oplog[i][1] # "delete"

\* one group was merged and its base put, then the merge of another group
\* failed: the run is over and the marked sources are all still there
C22_Witness ==
    /\ cpc = "error"
    /\ cfaults.merge # {}
    /\ cmerged # {}
    /\ \E i \in 1..Len(oplog) : oplog[i][1] = "put"
    /\ to_delete # <<>>
    /\ \A i \in 1..Len(to_delete) : to_delete[i] \in DOMAIN store

(***************************************************************************)
(* C23: a compaction run with bound M leaves every state delta with an id  *)
(* above M in the bucket with its content, names none of them in a put or  *)
(* a delete, and what it puts as the base of a group is the merge of the   *)
(* group's deltas with id <= M only.                                       *)
(***************************************************************************)
LaterDeltas(st, max_snap_id) ==
    {f \in Candidates(ListAllObjects(st)) : IdOf(f) > max_snap_id}

C23_CompactionRespectsBound ==
    cpc \in {"merging", "cleanup", "done"} =>
        /\ \A f \in LaterDeltas(store0, cmax) :
               /\ f \in DOMAIN store
               /\ store[f] = store0[f]
               /\ \A i \in 1..Len(oplog) : oplog[i][2] # f
        /\ \A g \in cmerged :
               (/\ \E i \in 1..Len(oplog) : oplog[i] = <<"put", MergedSnapshotPath(g)>>
                /\ \A i \in 1..Len(oplog) : oplog[i] # <<"delete", MergedSnapshotPath(g)>>) =>
                   store[MergedSnapshotPath(g)]
                       = LastWriteWins(store0, GroupDeltas(store0, g, cmax))

\* a finished run merged a group that also has a delta above the bound
C23_Witness ==
    /\ cpc = "done"
    /\ \E g \in cmerged :
           /\ \E f \in LaterDeltas(store0, cmax) : GroupOf(f) = g /\ store0[f] # EmptyDict
           /\ \E i \in 1..Len(oplog) : oplog[i] = <<"put", MergedSnapshotPath(g)>>

(***************************************************************************)
(* C24: when the completions of the n partitions of a round are reported   *)
(* by several execution units whose steps interleave, the round completes  *)
(* exactly once: when every write of the first round has succeeded, every  *)
(* completion has been reported and every unit has returned, the snapshot  *)
(* id is 1, no round is in progress and the counter is 0.                  *)
(***************************************************************************)
FirstRoundReported(w) ==
    /\ DeltaNames(w, 0) \subseteq DOMAIN store
    /\ pending[w] = {}
    /\ awaiting[w] = 0
    /\ \A u \in UnitIds : units[w][u].pc = "idle"

C24_ConcurrentCompletionsCompleteOnce ==
    \A w \in Workers :
        FirstRoundReported(w) =>
            /\ snapshot_id[w] = 1
            /\ ~snapshot_in_progress[w]
            /\ completed_snapshots[w] = 0

(***************************************************************************)
(* C25: at most one round is in progress per worker: the completed counter *)
(* is at least 0 and below the number of owned partitions, it is 0 when no *)
(* round is in progress, start_snapshotting runs only when no round is in  *)
(* progress, the snapshot id never decreases, and a round starts under an  *)
(* id no earlier round has written under.                                  *)
(***************************************************************************)
\* a step of start_snapshotting of worker w
StartStep(w) == polled[w] = "yes" /\ polled'[w] = "none"

RoundObjects(w, sn_id) == DeltaNames(w, sn_id) \cup {GetSequencerPath(w, sn_id)}

C25_OneRoundAtATime ==
    /\ [](\A w \in Workers :
              /\ 0 <= completed_snapshots[w]
              /\ completed_snapshots[w] < OwnedPartitions(w)
              /\ ~snapshot_in_progress[w] => completed_snapshots[w] = 0)
    /\ [][\A w \in Workers :
              /\ snapshot_id'[w] >= snapshot_id[w]
              /\ StartStep(w) =>
                     /\ ~snapshot_in_progress[w]
                     /\ snapshot_in_progress'[w]
                     /\ RoundObjects(w, snapshot_id[w]) \cap (DOMAIN store \cup pending[w]) = {}
                     /\ \A i \in 0..(snapshot_id[w] - 1) :
                            DeltaNames(w, i) \cap pending[w] = {}]_vars

\* the second round of a worker with two partitions is half reported
C25_Witness ==
    /\ snapshot_id[1] = 1
    /\ snapshot_in_progress[1]
    /\ completed_snapshots[1] = 1
    /\ DeltaNames(1, 0) \subseteq DOMAIN store

(***************************************************************************)
(* C26: a delta is immutable once written: no step changes the content     *)
(* stored under a state-delta name that is already in the bucket; a name   *)
(* is only created or deleted.                                             *)
(***************************************************************************)
IsDeltaName(k) == Len(k) = 5 /\ k[1] = "uncoordinated"

C26_DeltasAreImmutable ==
    [][\A k \in DOMAIN store \cap DOMAIN store' :
           IsDeltaName(k) => store'[k] = store[k]]_vars

(***************************************************************************)
(* C27: compactor and recovery implement the same merge: for a group of    *)
(* at least two deltas with id <= max_snap_id, the map the compactor       *)
(* computes for the base equals the map recovery at target max_snap_id     *)
(* returns for that partition on the same bucket.                          *)
(***************************************************************************)
C27_CompactorMergesAsRecovery ==
    cpc = "merging" =>
        \A g \in DOMAIN cgroups :
            (/\ Len(cgroups[g]) >= 2
             /\ <<g[2], g[3]>> \in RegisteredOperators(g[1])
             /\ RetrieveResult(store0, g[1], cmax).status = "ok") =>
                LET data == RetrieveResult(store0, g[1], cmax).data
                IN /\ <<g[2], g[3]>> \in DOMAIN data
                   /\ data[<<g[2], g[3]>>] = CompactMerge(store0, EmptyDict, cgroups[g])

(***************************************************************************)
(* C28: a compaction run touches no sequencer record and no object outside *)
(* the "uncoordinated" namespace: each of them is still stored with the    *)
(* content it had when the run started, and the sequencer loop of recovery *)
(* returns the same record for every worker and target.                    *)
(***************************************************************************)
IsSequencerKey(k) == Len(k) = 4 /\ k[1] = "uncoordinated" /\ k[3] = "sequencer"

OutsideNamespace(k) == k[1] # "uncoordinated"

\* the record the sequencer loop of retrieve_snapshot yields on bucket st
SequencerRecovered(st, w, target) ==
    SequencerLoop(st, [val |-> <<EmptyDict, EmptyDict, 0, 0>>, reads |-> {}],
                  MergeOrder(ListObjects(st, SequencerPrefix(w))), target).val

C28_CompactionLeavesSequencerAlone ==
    cpc \in {"merging", "cleanup", "done", "error"} =>
        /\ \A k \in DOMAIN store0 :
               (IsSequencerKey(k) \/ OutsideNamespace(k)) =>
                   /\ k \in DOMAIN store
                   /\ store[k] = store0[k]
        /\ \A i \in 1..Len(oplog) :
               ~IsSequencerKey(oplog[i][2]) /\ ~OutsideNamespace(oplog[i][2])
        /\ \A w \in Workers : \A target \in SnapIds :
               SequencerRecovered(store, w, target) = SequencerRecovered(store0, w, target)

\* a finished run merged a group and deleted deltas while sequencer records
\* and objects outside the namespace were stored
C28_Witness ==
    /\ cpc = "done"
    /\ cmerged # {}
    /\ \E i \in 1..Len(oplog) : oplog[i][1] = "delete"
    /\ \E k \in DOMAIN store0 : IsSequencerKey(k)
    /\ \E k \in DOMAIN store0 : OutsideNamespace(k) /\ Len(k) = 5

(***************************************************************************)
(* C29: round liveness: whatever the number of owned partitions, a round   *)
(* that was started and whose writes all succeed and report completion     *)
(* ends: the worker is idle again with its snapshot id incremented.        *)
(***************************************************************************)
RoundRunning(w, i) == snapshot_in_progress[w] /\ snapshot_id[w] = i

RoundOver(w, i) == ~snapshot_in_progress[w] /\ snapshot_id[w] = i + 1

C29_RoundEventuallyCompletes ==
    \A w \in ConfiguredWorkers : \A i \in 0..MaxRounds :
        RoundRunning(w, i) ~> RoundOver(w, i)

\* the same for the workers that own at least one partition
RoundsOfOwnersComplete ==
    \A w \in Workers : \A i \in 0..MaxRounds :
        RoundRunning(w, i) ~> RoundOver(w, i)

(***************************************************************************)
(* C30: a completed compaction run with bound M does not change what       *)
(* recovery returns for an earlier target: for every worker and target t   *)
(* with 0 <= t < M the recovered state maps are those of the bucket the    *)
(* run started from.                                                       *)
(***************************************************************************)
C30_EarlierTargetsUnchanged ==
    cpc = "done" =>
        \A w \in Workers : \A t \in 0..(cmax - 1) :
            RetrieveResult(store0, w, t).status = "ok" =>
                /\ RetrieveResult(store, w, t).status = "ok"
                /\ RecoveredData(store, w, t) = RecoveredData(store0, w, t)

====
